---- MODULE Spec2Model ----
(***************************************************************************)
(* Model of the biedbot account-onboarding dialogue (src/main.rs), the     *)
(* backend client results it consumes (src/api.rs) and the account store   *)
(* (src/db.rs).                                                            *)
(*                                                                         *)
(* One step of the model is one run of one teloxide endpoint on one        *)
(* incoming message.  The inputs of a step are the chat, whether the       *)
(* sender is a maintainer, the message, and the responses of the backend   *)
(* and of the sled tree to the calls the endpoint makes.                   *)
(*                                                                         *)
(* Seven specifications: Spec (the onboarding dialogue of one chat, every  *)
(* backend result), SpecCommands (one chat, the store commands rename and  *)
(* remove among the messages), SpecSessions (two chats), SpecFunctions     *)
(* (each BiedApi function applied once to a response drawn from a wider    *)
(* set), SpecInFlight (updates arriving while an endpoint of the chat      *)
(* awaits the backend), SpecSync (the offer cache over the days) and       *)
(* SpecLocks (the endpoints of three chats taking the store and cache      *)
(* mutexes, with the fairness of the runtime).                             *)
(*                                                                         *)
(* Environment assumption: the chat transport accepts every outbound       *)
(* message, so the `?` that follows each bot.send_message never returns    *)
(* early.  Every other early return, unwrap and panic is modelled.         *)
(***************************************************************************)
EXTENDS Integers, Sequences, FiniteSets, TLC

\* ------------------------------------------------------------------ bounds
NumTitles == 2
NumTexts == 1
MaxHeaders == 3
MaxLen == 6

\* One chat session is modelled; the storage keeps one entry per chat.
Chats == {"chatA"}
Titles == {<<"title", i>> : i \in 1..NumTitles}
Phones == {<<"phone", 1>>, <<"phone", 2>>}
PlainTexts == {<<"text", i>> : i \in 1..NumTexts}
Cards == {<<"card", 1>>}

\* ------------------------------------------------------------ conversation
\* enum State, and the absent entry of the InMemStorage map
Start == [tag |-> "Start"]
ReceiveSmsCode(title, phone_number) ==
    [tag |-> "ReceiveSmsCode", title |-> title, phone_number |-> phone_number]
ReceiveTitle(title, phone_number, sms_code) ==
    [tag |-> "ReceiveTitle", title |-> title, phone_number |-> phone_number,
     sms_code |-> sms_code]
NoDialogue == [tag |-> "NoDialogue"]

\* ---------------------------------------------------------------- messages
\* An incoming message: an admin command that parses (Add, Cancel, Rename,
\* Remove), any other text, or a message without text (photo, sticker, ...).
AddMsg(title, phone_number) ==
    [kind |-> "Add", title |-> title, phone_number |-> phone_number]
CancelMsg == [kind |-> "Cancel"]
RenameMsg(old, new) == [kind |-> "Rename", old |-> old, new |-> new]
RemoveMsg(title) == [kind |-> "Remove", title |-> title]
TextMsg(t) == [kind |-> "Text", text |-> t]
NonTextMsg == [kind |-> "NonText"]

Messages ==
    {AddMsg(t, p) : t \in Titles, p \in Phones}
        \cup {CancelMsg, NonTextMsg}
        \cup {TextMsg(t) : t \in PlainTexts}

\* The messages that parse as the store commands Rename and Remove.
StoreMessages ==
    {RenameMsg(old, new) : old \in Titles, new \in Titles}
        \cup {RemoveMsg(t) : t \in Titles}

None == <<"none", 0>>

\* msg.text(): the raw text of the message; a command keeps its text
MsgText(m) ==
    CASE m.kind = "Text" -> m.text
      [] m.kind = "Add" -> <<"/add", 0>>
      [] m.kind = "Cancel" -> <<"/cancel", 0>>
      [] m.kind = "Rename" -> <<"/rename", 0>>
      [] m.kind = "Remove" -> <<"/remove", 0>>
      [] OTHER -> None

Texts == {MsgText(m) : m \in Messages \cup StoreMessages} \ {None}

\* ------------------------------------------------------- results (Result<T, E>)
Ok(v) == [ok |-> TRUE, val |-> v]
Err(e) == [ok |-> FALSE, err |-> e]
Unit == <<"()", 0>>

\* ------------------------------------------------------------- backend (api.rs)
\* A backend exchange either fails in reqwest/serde (the `?` on send() and
\* json()) or yields the decoded `data` of the response envelope.
TransportFailure == [received |-> FALSE]
Received(data) == [received |-> TRUE, data |-> data]

BlockedMinutes == {-1, 0, 5}
ErrorMessages == {"", "daily limit"}
SmsVerificationResponce(n, b, s, msg) ==
    [blocked_in_minutes |-> n, is_blocked |-> b, is_sms_sent |-> s, error_message |-> msg]

\* The sms responses the onboarding runs are explored with: one for each
\* result send_sms_code can return.
SmsResponses ==
    {TransportFailure,
     Received(SmsVerificationResponce(5, TRUE, FALSE, "daily limit")),
     Received(SmsVerificationResponce(0, TRUE, TRUE, "daily limit")),
     Received(SmsVerificationResponce(0, FALSE, FALSE, "daily limit")),
     Received(SmsVerificationResponce(0, FALSE, TRUE, "daily limit"))}

\* send_sms_code that tests the blocked flag before the duration
send_sms_code_flag_first(resp) ==
    IF ~resp.received THEN Err([kind |-> "Transport", minutes |-> 0, reason |-> ""])
    ELSE IF resp.data.is_blocked THEN Err([kind |-> "Blocked", minutes |-> 0, reason |-> ""])
    ELSE IF resp.data.blocked_in_minutes > 0
        THEN Err([kind |-> "BlockedMinutes", minutes |-> resp.data.blocked_in_minutes,
                  reason |-> ""])
    ELSE IF ~resp.data.is_sms_sent
        THEN Err([kind |-> "SmsNotSent", minutes |-> 0, reason |-> resp.data.error_message])
    ELSE Ok(Unit)

send_sms_code(resp) ==
    IF ~resp.received THEN Err([kind |-> "Transport", minutes |-> 0, reason |-> ""])
    ELSE IF resp.data.blocked_in_minutes > 0
        THEN Err([kind |-> "BlockedMinutes", minutes |-> resp.data.blocked_in_minutes,
                  reason |-> ""])
    ELSE IF resp.data.is_blocked THEN Err([kind |-> "Blocked", minutes |-> 0, reason |-> ""])
    ELSE IF ~resp.data.is_sms_sent
        THEN Err([kind |-> "SmsNotSent", minutes |-> 0, reason |-> resp.data.error_message])
    ELSE Ok(Unit)

NextStepStrings == {"NewAccount", "AccountExist", "Login", "SomethingElse"}
NextStepResponses == {TransportFailure} \cup {Received(s) : s \in NextStepStrings}

\* The next-step responses the onboarding runs are explored with: one for
\* each result calculate_next_step can return ("Login" gives the result of
\* "AccountExist").
StepResponses == NextStepResponses \ {Received("Login")}

\* calculate_next_step that knows one account-exists string only
calculate_next_step_one_string(resp) ==
    IF ~resp.received THEN Err([kind |-> "Transport", value |-> ""])
    ELSE IF resp.data = "NewAccount" THEN Ok("NewAccount")
    ELSE IF resp.data = "AccountExist" THEN Ok("AccountExist")
    ELSE Err([kind |-> "UnknownNextStep", value |-> resp.data])

calculate_next_step(resp) ==
    IF ~resp.received THEN Err([kind |-> "Transport", value |-> ""])
    ELSE IF resp.data = "NewAccount" THEN Ok("NewAccount")
    ELSE IF resp.data \in {"AccountExist", "Login"} THEN Ok("AccountExist")
    ELSE Err([kind |-> "UnknownNextStep", value |-> resp.data])

\* ApiError(String): the message is a literal of api.rs, or the Debug text of
\* the reqwest / cookie error it was converted from.
ApiError(message) == [kind |-> "ApiError", message |-> message]

\* Text the client inspects character by character is a sequence of
\* characters; a percent-encoded octet ("%3B") is one element of it.
NoneStr == [some |-> FALSE, val |-> <<>>]
Some(v) == [some |-> TRUE, val |-> v]

\* percent_decode that leaves the text as it is
percent_decode_nothing(s) == [i \in 1..Len(s) |-> s[i]]

\* percent_encoding::percent_decode_str(..).decode_utf8_lossy()
percent_decode(s) ==
    [i \in 1..Len(s) |->
        CASE s[i] = "%3B" -> ";"
          [] s[i] = "%3D" -> "="
          [] OTHER -> s[i]]

\* The regex crf=([^;]+) matches at position i of s.
CrfMatchAt(s, i) ==
    /\ i + 4 <= Len(s)
    /\ s[i] = "c" /\ s[i + 1] = "r" /\ s[i + 2] = "f" /\ s[i + 3] = "="
    /\ s[i + 4] # ";"

\* extract_csrf_token that looks for the fragment at the start only
extract_csrf_token_anchored(users2) ==
    IF ~CrfMatchAt(users2, 1) THEN NoneStr
    ELSE LET stops == {k \in 5..Len(users2) : users2[k] = ";"}
             e == IF stops = {} THEN Len(users2)
                  ELSE (CHOOSE k \in stops : \A j \in stops : k <= j) - 1
             whole == SubSeq(users2, 1, e)
         IN Some(SubSeq(whole, 5, Len(whole)))

\* extract_csrf_token: the leftmost match of the regex, its group taken as
\* long as it can be; get(0) is the whole match and skip(4) drops "crf=".
extract_csrf_token(users2) ==
    LET starts == {i \in 1..Len(users2) : CrfMatchAt(users2, i)}
    IN IF starts = {} THEN NoneStr
       ELSE LET i == CHOOSE k \in starts : \A j \in starts : k <= j
                stops == {k \in (i + 4)..Len(users2) : users2[k] = ";"}
                e == IF stops = {} THEN Len(users2)
                     ELSE (CHOOSE k \in stops : \A j \in stops : k <= j) - 1
                whole == SubSeq(users2, i, e)
            IN Some(SubSeq(whole, 5, Len(whole)))

\* A set-cookie header "name=value; attributes".  `ascii` is whether
\* HeaderValue::to_str accepts it, `pair` whether it has the "=" that
\* Cookie::from_str needs.
SetCookie(name, value) == [name |-> name, value |-> value, ascii |-> TRUE, pair |-> TRUE]

\* val.starts_with(prefix), by the cookie names that occur
starts_with(header, prefix) ==
    \/ header.name = prefix
    \/ prefix = "nr1Users" /\ header.name = "nr1UsersOld"

CookieA == <<"a", "b">>
CookieB == <<"c", "d">>
CookieTok == <<"%3B", "c", "r", "f", "%3D", "t", "o", "k", "%3B">>
CookieUvw == <<"x", "%3B", "c", "r", "f", "%3D", "u", "v", "w">>
CookieNoCrf == <<"c", "r", "f", "%3B", "x">>

LoginHeaders ==
    {SetCookie("nr1Users", CookieA), SetCookie("nr1Users", CookieB),
     SetCookie("nr1UsersOld", CookieB),
     SetCookie("nr2Users", CookieTok), SetCookie("nr2Users", CookieUvw),
     SetCookie("nr2Users", CookieNoCrf),
     SetCookie("session", CookieA),
     [name |-> "nr2Users", value |-> <<>>, ascii |-> TRUE, pair |-> FALSE],
     [name |-> "session", value |-> CookieA, ascii |-> FALSE, pair |-> TRUE]}

\* The body of the login response: LoginResponce, or something json() rejects.
LoginBody(card_number) == [valid |-> TRUE, card_number |-> card_number]
InvalidBody == [valid |-> FALSE, card_number |-> <<"card", 0>>]

Http(headers, body) == [received |-> TRUE, headers |-> headers, body |-> body]
NoHttp == [received |-> FALSE, headers |-> <<>>, body |-> InvalidBody]

\* The login responses the onboarding runs are explored with: no response,
\* one without the second cookie, one whose second cookie has no crf
\* fragment, and complete ones.
LoginResponses ==
    {NoHttp,
     Http(<<SetCookie("nr1Users", CookieA)>>, LoginBody(<<"card", 1>>)),
     Http(<<SetCookie("nr1Users", CookieA), SetCookie("nr2Users", CookieNoCrf)>>,
          LoginBody(<<"card", 1>>))}
        \cup {Http(<<SetCookie("nr1Users", CookieA), SetCookie("nr2Users", CookieTok)>>,
                   LoginBody(k)) : k \in Cards}

AuthData(users1, users2, csrf_token) ==
    [users1 |-> users1, users2 |-> users2, csrf_token |-> csrf_token]

AuthenticatedUser(phone_number, card_number, auth) ==
    [phone_number |-> phone_number, card_number |-> card_number, auth |-> auth]

\* Scan that keeps the first match
ScanFirst(headers, prefix) ==
    LET hits == {i \in DOMAIN headers : starts_with(headers[i], prefix)}
    IN IF hits = {} THEN [some |-> FALSE, i |-> 0]
       ELSE [some |-> TRUE, i |-> CHOOSE k \in hits : \A j \in hits : k <= j]

\* The header the loop of lines 119-128 leaves in u1 / u2: each match
\* overwrites the one before.
Scan(headers, prefix) ==
    LET hits == {i \in DOMAIN headers : starts_with(headers[i], prefix)}
    IN IF hits = {} THEN [some |-> FALSE, i |-> 0]
       ELSE [some |-> TRUE, i |-> CHOOSE k \in hits : \A j \in hits : k >= j]

login(phone_number, sms_code, resp) ==
    IF ~resp.received THEN Err(ApiError("reqwest::Error"))
    ELSE LET hs == resp.headers
             u1 == Scan(hs, "nr1Users")
             u2 == Scan(hs, "nr2Users")
             users1 == hs[u1.i]
             users2 == hs[u2.i]
             csrf_token == extract_csrf_token(percent_decode(users2.value))
         IN IF \E i \in DOMAIN hs : ~hs[i].ascii
                THEN Err(ApiError("Header parsing error"))
            ELSE IF ~u1.some THEN Err(ApiError(""))
            ELSE IF ~users1.pair THEN Err(ApiError("cookie::ParseError"))
            ELSE IF ~u2.some THEN Err(ApiError(""))
            ELSE IF ~users2.pair THEN Err(ApiError("cookie::ParseError"))
            ELSE IF ~resp.body.valid THEN Err(ApiError("reqwest::Error"))
            ELSE IF ~csrf_token.some THEN Err(ApiError("can't find the csrf token"))
            ELSE Ok(AuthenticatedUser(phone_number, resp.body.card_number,
                                      AuthData(users1.value, users2.value,
                                               csrf_token.val)))

RegisterResponses == {TransportFailure, Received(Unit)}

register(phone_number, sms_code, first_name, resp) ==
    IF ~resp.received THEN Err([kind |-> "Transport"]) ELSE Ok(Unit)

\* ------------------------------------------------------------- store (db.rs)
\* The sled tree `accounts`: title -> serialized AuthenticatedUser.
NoAccount == [tag |-> "NoAccount"]
Users ==
    {login(p, None, r).val :
        p \in Phones, r \in {x \in LoginResponses : login(<<"phone", 1>>, None, x).ok}}

\* insert_account: the tree insert either fails (sled::Error, tree unchanged)
\* or replaces the value under `title`.
insert_account(accounts, title, user, sledOk) ==
    IF sledOk
        THEN [accounts |-> [accounts EXCEPT ![title] = user], res |-> Ok(Unit)]
        ELSE [accounts |-> accounts, res |-> Err([kind |-> "StoreError"])]

\* remove_account: the tree remove fails (tree unchanged), or finds no value
\* under `title`, or takes the value out and returns it.
remove_account(accounts, title, sledOk) ==
    IF ~sledOk THEN [accounts |-> accounts, res |-> Err([kind |-> "StoreError"])]
    ELSE IF accounts[title] = NoAccount
        THEN [accounts |-> accounts, res |-> Err([kind |-> "No account with that name"])]
    ELSE [accounts |-> [accounts EXCEPT ![title] = NoAccount], res |-> Ok(accounts[title])]

\* rename_account: the value is taken out from under `old` first and then
\* inserted under `new`; `sled` tells which of the two tree calls fails.
SledOutcomes == {"ok", "remove fails", "insert fails"}
rename_account(accounts, old, new, sled) ==
    LET removed == [accounts EXCEPT ![old] = NoAccount]
    IN IF sled = "remove fails"
        THEN [accounts |-> accounts, res |-> Err([kind |-> "StoreError"])]
       ELSE IF accounts[old] = NoAccount
        THEN [accounts |-> accounts, res |-> Err([kind |-> "no account with that name"])]
       ELSE IF sled = "insert fails"
        THEN [accounts |-> removed, res |-> Err([kind |-> "StoreError"])]
       ELSE [accounts |-> [removed EXCEPT ![new] = accounts[old]], res |-> Ok(Unit)]

\* --------------------------------------------------- dialogue storage (main.rs)
\* dialogue::enter: the stored state of the chat, or State::default()
StateOf(entry) == IF entry = NoDialogue THEN Start ELSE entry

\* dialogue.update(state)
update(entry, state) == [entry |-> state, res |-> Ok(Unit)]

\* dialogue.exit(): InMemStorage::remove_dialogue removes the entry of the
\* chat and fails with DialogueNotFound when the chat has none.
exit(entry) ==
    IF entry = NoDialogue
        THEN [entry |-> NoDialogue, res |-> Err([kind |-> "DialogueNotFound"])]
        ELSE [entry |-> NoDialogue, res |-> Ok(Unit)]

\* ------------------------------------------------------ endpoints (main.rs)
\* What one endpoint run does: the chat's storage entry and the tree it
\* leaves, the messages it sent to the chat, the backend and store calls it
\* made in order, and how it ended ("Ok", "Err" for a returned error,
\* "Panic" for an unwrap/panic! that unwound the handler).
Effect(entry, accounts, sent, calls, result) ==
    [entry |-> entry, accounts |-> accounts, sent |-> sent, calls |-> calls,
     result |-> result]

NoError == [kind |-> "none"]
Say(text) == [text |-> text, error |-> NoError]
SayError(text, e) == [text |-> text, error |-> e]

Returned(res) == IF res.ok THEN "Ok" ELSE "Err"

\* A call the endpoint made, with what it returned.
CallSms(phone_number, res) ==
    [op |-> "send_sms_code", phone_number |-> phone_number, res |-> res]
CallNextStep(phone_number, res) ==
    [op |-> "calculate_next_step", phone_number |-> phone_number, res |-> res]
CallLogin(phone_number, sms_code, res) ==
    [op |-> "login", phone_number |-> phone_number, sms_code |-> sms_code, res |-> res]
CallRegister(phone_number, sms_code, first_name, res) ==
    [op |-> "register", phone_number |-> phone_number, sms_code |-> sms_code,
     first_name |-> first_name, res |-> res]
CallInsert(title, user, res) ==
    [op |-> "insert_account", title |-> title, user |-> user, res |-> res]

\* cancel without the dialogue.exit() call
cancel_without_exit(entry, accounts) ==
    Effect(entry, accounts, <<Say("Cancelling the dialogue.")>>, <<>>, "Ok")

cancel(entry, accounts) ==
    LET x == exit(entry)
    IN Effect(x.entry, accounts, <<Say("Cancelling the dialogue.")>>, <<>>,
              Returned(x.res))

CallRename(old, new, res) ==
    [op |-> "rename_account", old |-> old, new |-> new, res |-> res]
CallRemove(title, res) == [op |-> "remove_account", title |-> title, res |-> res]

rename(entry, accounts, old, new, sled) ==
    LET r == rename_account(accounts, old, new, sled)
    IN Effect(entry, r.accounts,
              IF r.res.ok THEN <<Say("Renamed user")>>
              ELSE <<SayError("Error renaming user", r.res.err)>>,
              <<CallRename(old, new, r.res)>>, "Ok")

remove(entry, accounts, title, sledOk) ==
    LET r == remove_account(accounts, title, sledOk)
    IN Effect(entry, r.accounts,
              IF r.res.ok THEN <<Say("Removed user")>>
              ELSE <<SayError("Error removing user", r.res.err)>>,
              <<CallRemove(title, r.res)>>, "Ok")

invalid_state(entry, accounts) ==
    Effect(entry, accounts, <<Say("Unable to handle the message.")>>, <<>>, "Ok")

\* add_acconut that asks for the code whatever send_sms_code returned
add_acconut_ignoring_error(entry, accounts, title, phone_number, smsResp) ==
    LET r == send_sms_code(smsResp)
        u == update(entry, ReceiveSmsCode(title, phone_number))
    IN Effect(u.entry, accounts,
              IF r.ok THEN <<Say("Creating accont. What is it:")>>
              ELSE <<SayError("Error sending sms message", r.err)>>,
              <<CallSms(phone_number, r)>>, Returned(u.res))

\* add_acconut that starts every flow under the same title
add_acconut_one_title(entry, accounts, title, phone_number, smsResp) ==
    LET r == send_sms_code(smsResp)
        calls == <<CallSms(phone_number, r)>>
    IN IF r.ok
        THEN LET u == update(entry, ReceiveSmsCode(<<"title", 1>>, phone_number))
             IN Effect(u.entry, accounts, <<Say("Creating accont. What is it:")>>,
                       calls, Returned(u.res))
        ELSE LET x == exit(entry)
             IN Effect(x.entry, accounts,
                       <<SayError("Error sending sms message", r.err)>>,
                       calls, Returned(x.res))

add_acconut(entry, accounts, title, phone_number, smsResp) ==
    LET r == send_sms_code(smsResp)
        calls == <<CallSms(phone_number, r)>>
    IN IF r.ok
        THEN LET u == update(entry, ReceiveSmsCode(title, phone_number))
             IN Effect(u.entry, accounts, <<Say("Creating accont. What is it:")>>,
                       calls, Returned(u.res))
        ELSE LET x == exit(entry)
             IN Effect(x.entry, accounts,
                       <<SayError("Error sending sms message", r.err)>>,
                       calls, Returned(x.res))

\* receive_sms_code that keeps the phone number where the sms code belongs
receive_sms_code_wrong_code(entry, accounts, msg, title, phone_number, stepResp, loginResp, sledOk) ==
    LET sms_code == MsgText(msg)
        step == calculate_next_step(stepResp)
        logged == login(phone_number, sms_code, loginResp)
        ins == insert_account(accounts, title, logged.val, sledOk)
        x == exit(entry)
        u == update(entry, ReceiveTitle(title, phone_number, phone_number))
        c1 == <<CallNextStep(phone_number, step)>>
        c2 == Append(c1, CallLogin(phone_number, sms_code, logged))
        c3 == Append(c2, CallInsert(title, logged.val, ins.res))
    IN IF sms_code = None
        THEN Effect(entry, accounts, <<Say("Please, send me the sms code.")>>, <<>>, "Ok")
       ELSE IF ~step.ok
        THEN Effect(entry, accounts, <<SayError("Error logging in", step.err)>>, c1, "Ok")
       ELSE IF step.val = "NewAccount"
        THEN Effect(u.entry, accounts, <<Say("This is a new account, name:")>>, c1,
                    Returned(u.res))
       ELSE IF ~logged.ok
        THEN Effect(entry, accounts, <<>>, c2, "Panic")
       ELSE IF ins.res.ok
        THEN Effect(x.entry, ins.accounts, <<Say("Added user")>>, c3, Returned(x.res))
       ELSE Effect(entry, ins.accounts,
                   <<SayError("Error saving account", ins.res.err)>>, c3, "Ok")

\* receive_sms_code that asks for the next step again after a failure
receive_sms_code_retrying(entry, accounts, msg, title, phone_number, stepResp, loginResp, sledOk) ==
    LET sms_code == MsgText(msg)
        step == calculate_next_step(stepResp)
        logged == login(phone_number, sms_code, loginResp)
        ins == insert_account(accounts, title, logged.val, sledOk)
        x == exit(entry)
        u == update(entry, ReceiveTitle(title, phone_number, sms_code))
        c1 == <<CallNextStep(phone_number, step)>>
        c2 == Append(c1, CallLogin(phone_number, sms_code, logged))
        c3 == Append(c2, CallInsert(title, logged.val, ins.res))
    IN IF sms_code = None
        THEN Effect(entry, accounts, <<Say("Please, send me the sms code.")>>, <<>>, "Ok")
       ELSE IF ~step.ok
        THEN Effect(entry, accounts, <<SayError("Error logging in", step.err)>>,
                    Append(c1, CallNextStep(phone_number, step)), "Ok")
       ELSE IF step.val = "NewAccount"
        THEN Effect(u.entry, accounts, <<Say("This is a new account, name:")>>, c1,
                    Returned(u.res))
       ELSE IF ~logged.ok
        THEN Effect(entry, accounts, <<>>, c2, "Panic")
       ELSE IF ins.res.ok
        THEN Effect(x.entry, ins.accounts, <<Say("Added user")>>, c3, Returned(x.res))
       ELSE Effect(entry, ins.accounts,
                   <<SayError("Error saving account", ins.res.err)>>, c3, "Ok")

receive_sms_code(entry, accounts, msg, title, phone_number, stepResp, loginResp, sledOk) ==
    LET sms_code == MsgText(msg)
        step == calculate_next_step(stepResp)
        logged == login(phone_number, sms_code, loginResp)
        ins == insert_account(accounts, title, logged.val, sledOk)
        x == exit(entry)
        u == update(entry, ReceiveTitle(title, phone_number, sms_code))
        c1 == <<CallNextStep(phone_number, step)>>
        c2 == Append(c1, CallLogin(phone_number, sms_code, logged))
        c3 == Append(c2, CallInsert(title, logged.val, ins.res))
    IN IF sms_code = None
        THEN Effect(entry, accounts, <<Say("Please, send me the sms code.")>>, <<>>, "Ok")
       ELSE IF ~step.ok
        THEN Effect(entry, accounts, <<SayError("Error logging in", step.err)>>, c1, "Ok")
       ELSE IF step.val = "NewAccount"
        THEN Effect(u.entry, accounts, <<Say("This is a new account, name:")>>, c1,
                    Returned(u.res))
       ELSE IF ~logged.ok
        THEN Effect(entry, accounts, <<>>, c2, "Panic")
       ELSE IF ins.res.ok
        THEN Effect(x.entry, ins.accounts, <<Say("Added user")>>, c3, Returned(x.res))
       ELSE Effect(entry, ins.accounts,
                   <<SayError("Error saving account", ins.res.err)>>, c3, "Ok")

\* recive_title that leaves the dialogue after the re-prompt as well
recive_title_exit_always(entry, accounts, msg, title, phone_number, sms_code, regResp, loginResp, sledOk) ==
    LET name == MsgText(msg)
        reg == register(phone_number, sms_code, name, regResp)
        logged == login(phone_number, sms_code, loginResp)
        ins == insert_account(accounts, title, logged.val, sledOk)
        x == exit(entry)
        c1 == <<CallRegister(phone_number, sms_code, name, reg)>>
        c2 == Append(c1, CallLogin(phone_number, sms_code, logged))
        c3 == Append(c2, CallInsert(title, logged.val, ins.res))
        said == <<Say("registered succesfully.")>>
    IN IF name = None
        THEN Effect(x.entry, accounts, <<Say("Please, send me your full name.")>>, <<>>,
                    Returned(x.res))
       ELSE IF ~reg.ok
        THEN Effect(entry, accounts, <<>>, c1, "Panic")
       ELSE IF ~logged.ok
        THEN Effect(entry, accounts, said, c2, "Panic")
       ELSE IF ~ins.res.ok
        THEN Effect(entry, ins.accounts, said, c3, "Panic")
       ELSE Effect(x.entry, ins.accounts, said, c3, Returned(x.res))

\* recive_title that goes on to login and insert although register failed
recive_title_ignoring_register(entry, accounts, msg, title, phone_number, sms_code, regResp, loginResp, sledOk) ==
    LET name == MsgText(msg)
        reg == register(phone_number, sms_code, name, regResp)
        logged == login(phone_number, sms_code, loginResp)
        ins == insert_account(accounts, title, logged.val, sledOk)
        x == exit(entry)
        c1 == <<CallRegister(phone_number, sms_code, name, reg)>>
        c2 == Append(c1, CallLogin(phone_number, sms_code, logged))
        c3 == Append(c2, CallInsert(title, logged.val, ins.res))
        said == <<Say("registered succesfully.")>>
    IN IF name = None
        THEN Effect(entry, accounts, <<Say("Please, send me your full name.")>>, <<>>, "Ok")
       ELSE IF ~logged.ok
        THEN Effect(entry, accounts, said, c2, "Panic")
       ELSE IF ~ins.res.ok
        THEN Effect(entry, ins.accounts, said, c3, "Panic")
       ELSE Effect(x.entry, ins.accounts, said, c3, Returned(x.res))

recive_title(entry, accounts, msg, title, phone_number, sms_code, regResp, loginResp, sledOk) ==
    LET name == MsgText(msg)
        reg == register(phone_number, sms_code, name, regResp)
        logged == login(phone_number, sms_code, loginResp)
        ins == insert_account(accounts, title, logged.val, sledOk)
        x == exit(entry)
        c1 == <<CallRegister(phone_number, sms_code, name, reg)>>
        c2 == Append(c1, CallLogin(phone_number, sms_code, logged))
        c3 == Append(c2, CallInsert(title, logged.val, ins.res))
        said == <<Say("registered succesfully.")>>
    IN IF name = None
        THEN Effect(entry, accounts, <<Say("Please, send me your full name.")>>, <<>>, "Ok")
       ELSE IF ~reg.ok
        THEN Effect(entry, accounts, <<>>, c1, "Panic")
       ELSE IF ~logged.ok
        THEN Effect(entry, accounts, said, c2, "Panic")
       ELSE IF ~ins.res.ok
        THEN Effect(entry, ins.accounts, said, c3, "Panic")
       ELSE Effect(x.entry, ins.accounts, said, c3, Returned(x.res))

\* ------------------------------------------------------------ schema (main.rs)
\* The dptree of message_handler: the admin command branch (maintainers
\* only; Add only in State::Start), then the state branches, then
\* invalid_state.  A branch that does not match passes the message on.
IsAdminCommand(m) == m.kind \in {"Add", "Cancel", "Rename", "Remove"}

\* schema without the maintainers filter
schema_for_everyone(state, m, is_admin) ==
    IF IsAdminCommand(m) /\ state.tag = "Start" /\ m.kind = "Add"
        THEN "add_acconut"
    ELSE IF IsAdminCommand(m) /\ m.kind = "Cancel"
        THEN "cancel"
    ELSE IF IsAdminCommand(m) /\ m.kind = "Rename"
        THEN "rename"
    ELSE IF IsAdminCommand(m) /\ m.kind = "Remove"
        THEN "remove"
    ELSE IF state.tag = "ReceiveSmsCode" THEN "receive_sms_code"
    ELSE IF state.tag = "ReceiveTitle" THEN "recive_title"
    ELSE "invalid_state"

schema(state, m, is_admin) ==
    IF IsAdminCommand(m) /\ is_admin /\ state.tag = "Start" /\ m.kind = "Add"
        THEN "add_acconut"
    ELSE IF IsAdminCommand(m) /\ is_admin /\ m.kind = "Cancel"
        THEN "cancel"
    ELSE IF IsAdminCommand(m) /\ is_admin /\ m.kind = "Rename"
        THEN "rename"
    ELSE IF IsAdminCommand(m) /\ is_admin /\ m.kind = "Remove"
        THEN "remove"
    ELSE IF state.tag = "ReceiveSmsCode" THEN "receive_sms_code"
    ELSE IF state.tag = "ReceiveTitle" THEN "recive_title"
    ELSE "invalid_state"

\* ------------------------------------------------------------------- state
VARIABLES
    dialogues,   \* InMemStorage<State>: chat -> stored State, or NoDialogue
    accounts,    \* BiedStore.accounts: title -> AuthenticatedUser, or NoAccount
    panicked,    \* chats whose update worker was unwound by a panic
    last,        \* the most recent endpoint run: its inputs (message, sender,
                 \* state and tree it started from) and its Effect
    calc,        \* one call of a BiedApi function on its own: the function,
                 \* its argument and, once it has returned, its result
    flight,      \* per chat: the endpoint run that awaits the backend, and
                 \* the updates of the chat that wait for the chat's worker
    cashe,       \* BiedCache: offers per title and collect_day
    today,       \* the day Utc::now() is in
    collected,   \* the days of the sync_offers calls that fetched offers
    mutexes,     \* the tokio Mutex of the store and of the cache: the worker
                 \* holding each
    pc           \* per worker: the endpoint it runs and where it is in it

syncVars == <<cashe, today, collected>>
lockVars == <<mutexes, pc>>
vars == <<dialogues, accounts, panicked, last, calc, flight, cashe, today, collected,
          mutexes, pc>>

NoEvent ==
    [chat |-> "none", is_admin |-> FALSE, msg |-> NonTextMsg, handler |-> "none",
     state |-> Start, accounts |-> [t \in Titles |-> NoAccount],
     sent |-> <<>>, calls |-> <<>>, result |-> "Ok"]

NoCalc == [fn |-> "none", arg |-> <<>>, done |-> FALSE, out |-> <<>>]

\* No endpoint run awaits the backend and no update waits.
NoRun == [is_admin |-> FALSE, msg |-> NonTextMsg, handler |-> "none"]
NoFlight == [c \in Chats |-> [run |-> NoRun, waiting |-> <<>>, overtaken |-> FALSE]]

\* BiedCache::new
NoOffers == [tag |-> "NoOffers"]
\* u32::MAX, as the largest number the checker has: all that matters of it
\* is that it is above every day of a month (1..31).
U32Max == 2147483647
BiedCache_new == [offers |-> [t \in Titles |-> NoOffers], collect_day |-> U32Max]

\* The workers of the dispatcher (one per chat) and the two mutexes of main.
Workers == {"chatA", "chatB", "chatC"}
AtRest == [handler |-> "none", at |-> "idle", held |-> 0]

\* The state outside the onboarding dialogue, after main has built it.
InitRest ==
    /\ flight = NoFlight
    /\ cashe = BiedCache_new
    /\ today = 1
    /\ collected = {}
    /\ mutexes = [store |-> <<>>, cashe |-> <<>>]
    /\ pc = [w \in Workers |-> AtRest]

Init ==
    /\ dialogues = [c \in Chats |-> NoDialogue]
    /\ accounts = [t \in Titles |-> NoAccount]
    /\ panicked = {}
    /\ last = NoEvent
    /\ calc = NoCalc
    /\ InitRest

\* Handled with one dialogue entry for all chats
Handled_one_dialogue(c, is_admin, m, handler, e) ==
    /\ dialogues' = [b \in DOMAIN dialogues |-> e.entry]
    /\ accounts' = e.accounts
    /\ panicked' = IF e.result = "Panic" THEN panicked \cup {c} ELSE panicked
    /\ last' = [chat |-> c, is_admin |-> is_admin, msg |-> m, handler |-> handler,
                state |-> StateOf(dialogues[c]), accounts |-> accounts,
                sent |-> e.sent, calls |-> e.calls, result |-> e.result]
    /\ UNCHANGED <<calc, flight, syncVars, lockVars>>

\* The endpoint run on message m of chat c took effect e.
Took(c, is_admin, m, handler, e) ==
    /\ dialogues' = [dialogues EXCEPT ![c] = e.entry]
    /\ accounts' = e.accounts
    /\ panicked' = IF e.result = "Panic" THEN panicked \cup {c} ELSE panicked
    /\ last' = [chat |-> c, is_admin |-> is_admin, msg |-> m, handler |-> handler,
                state |-> StateOf(dialogues[c]), accounts |-> accounts,
                sent |-> e.sent, calls |-> e.calls, result |-> e.result]
    /\ UNCHANGED <<calc, syncVars, lockVars>>

\* One endpoint run on message m of chat c, from the update to the return
\* of the endpoint, took effect e.
Handled(c, is_admin, m, handler, e) ==
    /\ Took(c, is_admin, m, handler, e)
    /\ UNCHANGED flight

\* The dispatcher hands message m of chat c to the endpoint the schema picks.
Dispatch(c, is_admin, m, handler) ==
    /\ c \notin panicked
    /\ schema(StateOf(dialogues[c]), m, is_admin) = handler

\* The responses are drawn for the calls the run makes: a call that is not
\* made has no response.
NotCalled(responses) == {CHOOSE r \in responses : TRUE}

\* The endpoint runs, for a message of `messages` arriving in a chat of
\* `chats` and backend responses drawn from the given sets.
AddAccountIn(chats, messages, smsResponses) ==
    \E c \in chats, is_admin \in BOOLEAN, m \in messages, smsResp \in smsResponses :
        /\ Dispatch(c, is_admin, m, "add_acconut")
        /\ Handled(c, is_admin, m, "add_acconut",
                   add_acconut(dialogues[c], accounts, m.title, m.phone_number, smsResp))

CancelIn(chats, messages) ==
    \E c \in chats, is_admin \in BOOLEAN, m \in messages :
        /\ Dispatch(c, is_admin, m, "cancel")
        /\ Handled(c, is_admin, m, "cancel", cancel(dialogues[c], accounts))

RenameIn(chats, messages) ==
    \E c \in chats, is_admin \in BOOLEAN, m \in messages, sled \in SledOutcomes :
        /\ Dispatch(c, is_admin, m, "rename")
        /\ Handled(c, is_admin, m, "rename",
                   rename(dialogues[c], accounts, m.old, m.new, sled))

RemoveIn(chats, messages) ==
    \E c \in chats, is_admin \in BOOLEAN, m \in messages, sledOk \in BOOLEAN :
        /\ Dispatch(c, is_admin, m, "remove")
        /\ Handled(c, is_admin, m, "remove",
                   remove(dialogues[c], accounts, m.title, sledOk))

ReceiveSmsCodeIn(chats, messages, stepResponses, loginResponses) ==
    \E c \in chats, is_admin \in BOOLEAN, m \in messages :
        /\ Dispatch(c, is_admin, m, "receive_sms_code")
        /\ \E stepResp \in IF MsgText(m) = None THEN NotCalled(stepResponses)
                           ELSE stepResponses :
           \E loginResp \in IF MsgText(m) # None /\ calculate_next_step(stepResp) = Ok("AccountExist")
                            THEN loginResponses ELSE NotCalled(loginResponses) :
           \E sledOk \in IF login(None, None, loginResp).ok THEN BOOLEAN ELSE {TRUE} :
             LET st == StateOf(dialogues[c])
             IN Handled(c, is_admin, m, "receive_sms_code",
                        receive_sms_code(dialogues[c], accounts, m, st.title,
                                         st.phone_number, stepResp, loginResp, sledOk))

ReceiveTitleIn(chats, messages, registerResponses, loginResponses) ==
    \E c \in chats, is_admin \in BOOLEAN, m \in messages :
        /\ Dispatch(c, is_admin, m, "recive_title")
        /\ \E regResp \in IF MsgText(m) = None THEN NotCalled(registerResponses)
                          ELSE registerResponses :
           \E loginResp \in IF MsgText(m) # None /\ regResp.received
                            THEN loginResponses ELSE NotCalled(loginResponses) :
           \E sledOk \in IF login(None, None, loginResp).ok THEN BOOLEAN ELSE {TRUE} :
             LET st == StateOf(dialogues[c])
             IN Handled(c, is_admin, m, "recive_title",
                        recive_title(dialogues[c], accounts, m, st.title, st.phone_number,
                                     st.sms_code, regResp, loginResp, sledOk))

InvalidStateIn(chats, messages) ==
    \E c \in chats, is_admin \in BOOLEAN, m \in messages :
        /\ Dispatch(c, is_admin, m, "invalid_state")
        /\ Handled(c, is_admin, m, "invalid_state", invalid_state(dialogues[c], accounts))

\* The onboarding conversation of one chat, with every backend response.
AddAccount == AddAccountIn(Chats, Messages, SmsResponses)
Cancel == CancelIn(Chats, Messages)
ReceiveSmsCodeMsg == ReceiveSmsCodeIn(Chats, Messages, StepResponses, LoginResponses)
ReceiveTitleMsg == ReceiveTitleIn(Chats, Messages, RegisterResponses, LoginResponses)
InvalidState == InvalidStateIn(Chats, Messages)

Next ==
    \/ AddAccount
    \/ Cancel
    \/ ReceiveSmsCodeMsg
    \/ ReceiveTitleMsg
    \/ InvalidState

Spec == Init /\ [][Next]_vars

\* The commands of one chat, the store commands among them, for one phone
\* number and with one failing and one succeeding response of each backend
\* operation.
CommandMessages ==
    {AddMsg(t, <<"phone", 1>>) : t \in Titles}
        \cup {CancelMsg, NonTextMsg}
        \cup {TextMsg(t) : t \in PlainTexts}
        \cup StoreMessages
SmsSent == Received(SmsVerificationResponce(0, FALSE, TRUE, ""))
FewSmsResponses == {TransportFailure, SmsSent}
FewNextStepResponses == {TransportFailure, Received("NewAccount"), Received("AccountExist")}
FewLoginResponses ==
    {NoHttp,
     Http(<<SetCookie("nr1Users", CookieA), SetCookie("nr2Users", CookieTok)>>,
          LoginBody(<<"card", 1>>))}

AddCommand == AddAccountIn(Chats, CommandMessages, FewSmsResponses)
CancelCommand == CancelIn(Chats, CommandMessages)
RenameCommand == RenameIn(Chats, CommandMessages)
RemoveCommand == RemoveIn(Chats, CommandMessages)
SmsCodeAmongCommands ==
    ReceiveSmsCodeIn(Chats, CommandMessages, FewNextStepResponses, FewLoginResponses)
TitleAmongCommands ==
    ReceiveTitleIn(Chats, CommandMessages, RegisterResponses, FewLoginResponses)
UnhandledCommand == InvalidStateIn(Chats, CommandMessages)

NextCommands ==
    \/ AddCommand
    \/ CancelCommand
    \/ RenameCommand
    \/ RemoveCommand
    \/ SmsCodeAmongCommands
    \/ TitleAmongCommands
    \/ UnhandledCommand

SpecCommands == Init /\ [][NextCommands]_vars

\* Two chats, each with its own dialogue entry, sharing the bot, the store
\* and the backend client.
SessionChats == {"chatA", "chatB"}
SessionMessages ==
    {AddMsg(<<"title", 1>>, <<"phone", 1>>), CancelMsg, TextMsg(<<"text", 1>>), NonTextMsg}

InitSessions ==
    /\ dialogues = [c \in SessionChats |-> NoDialogue]
    /\ accounts = [t \in Titles |-> NoAccount]
    /\ panicked = {}
    /\ last = NoEvent
    /\ calc = NoCalc
    /\ InitRest

AddInSession == AddAccountIn(SessionChats, SessionMessages, FewSmsResponses)
CancelInSession == CancelIn(SessionChats, SessionMessages)
SmsCodeInSession ==
    ReceiveSmsCodeIn(SessionChats, SessionMessages, FewNextStepResponses, FewLoginResponses)
TitleInSession ==
    ReceiveTitleIn(SessionChats, SessionMessages, RegisterResponses, FewLoginResponses)
UnhandledInSession == InvalidStateIn(SessionChats, SessionMessages)

NextSessions ==
    \/ AddInSession
    \/ CancelInSession
    \/ SmsCodeInSession
    \/ TitleInSession
    \/ UnhandledInSession

SpecSessions == InitSessions /\ [][NextSessions]_vars

\* One chat whose updates arrive while an endpoint run of the chat awaits
\* the backend.  The dispatcher gives the updates of a chat to one worker,
\* which runs one endpoint at a time to its end: an update that arrives
\* during a run waits for the run to return.
MaxWaiting == 1
FlightMessages == {AddMsg(<<"title", 1>>, <<"phone", 1>>), CancelMsg, TextMsg(<<"text", 1>>)}
Update(is_admin, m) == [is_admin |-> is_admin, msg |-> m]

\* The endpoint the schema picks for the update awaits the backend.
CallsBackend(state, u) ==
    LET handler == schema(state, u.msg, u.is_admin)
    IN \/ handler = "add_acconut"
       \/ handler \in {"receive_sms_code", "recive_title"} /\ MsgText(u.msg) # None

\* The effect of the endpoint `handler` on message m, given the responses
\* to the calls it makes.
EffectOf(handler, entry, accounts_, m, smsResp, stepResp, regResp, loginResp, sledOk) ==
    LET st == StateOf(entry)
    IN CASE handler = "add_acconut" ->
                add_acconut(entry, accounts_, m.title, m.phone_number, smsResp)
         [] handler = "cancel" -> cancel(entry, accounts_)
         [] handler = "receive_sms_code" ->
                receive_sms_code(entry, accounts_, m, st.title, st.phone_number,
                                 stepResp, loginResp, sledOk)
         [] handler = "recive_title" ->
                recive_title(entry, accounts_, m, st.title, st.phone_number, st.sms_code,
                             regResp, loginResp, sledOk)
         [] OTHER -> invalid_state(entry, accounts_)

\* An update of the chat arrives and waits for the chat's worker.
Arrive ==
    \E c \in Chats, is_admin \in BOOLEAN, m \in FlightMessages :
        /\ c \notin panicked
        /\ Len(flight[c].waiting) < MaxWaiting
        /\ flight' = [flight EXCEPT ![c].waiting = Append(@, Update(is_admin, m))]
        /\ UNCHANGED <<dialogues, accounts, panicked, last, calc, syncVars, lockVars>>

\* The worker takes the next update; its endpoint sends a backend request
\* and awaits the response.
BeginRun ==
    \E c \in Chats :
        /\ c \notin panicked
        /\ flight[c].run = NoRun
        /\ flight[c].waiting # <<>>
        /\ LET u == Head(flight[c].waiting)
           IN /\ CallsBackend(StateOf(dialogues[c]), u)
              /\ flight' = [flight EXCEPT ![c] =
                                [run |-> [is_admin |-> u.is_admin, msg |-> u.msg,
                                          handler |-> schema(StateOf(dialogues[c]), u.msg,
                                                             u.is_admin)],
                                 waiting |-> Tail(flight[c].waiting),
                                 overtaken |-> FALSE]]
        /\ UNCHANGED <<dialogues, accounts, panicked, last, calc, syncVars, lockVars>>

\* The worker takes the next update; its endpoint makes no backend call and
\* returns.
RunAtOnce ==
    \E c \in Chats :
        /\ c \notin panicked
        /\ flight[c].run = NoRun
        /\ flight[c].waiting # <<>>
        /\ LET u == Head(flight[c].waiting)
               handler == schema(StateOf(dialogues[c]), u.msg, u.is_admin)
           IN /\ ~CallsBackend(StateOf(dialogues[c]), u)
              /\ Took(c, u.is_admin, u.msg, handler,
                      EffectOf(handler, dialogues[c], accounts, u.msg, TransportFailure,
                               TransportFailure, TransportFailure, NoHttp, TRUE))
              /\ flight' = [flight EXCEPT ![c] =
                                [run |-> NoRun, waiting |-> Tail(flight[c].waiting),
                                 overtaken |-> FALSE]]

\* The responses arrive and the awaiting endpoint runs to its return; the
\* updates that arrived meanwhile are still waiting.
CompleteRun ==
    \E c \in Chats, smsResp \in FewSmsResponses, stepResp \in FewNextStepResponses,
       regResp \in RegisterResponses, loginResp \in FewLoginResponses, sledOk \in BOOLEAN :
        /\ flight[c].run # NoRun
        /\ LET r == flight[c].run
           IN Took(c, r.is_admin, r.msg, r.handler,
                   EffectOf(r.handler, dialogues[c], accounts, r.msg, smsResp, stepResp,
                            regResp, loginResp, sledOk))
        /\ flight' = [flight EXCEPT ![c] =
                        [run |-> NoRun, waiting |-> flight[c].waiting,
                         overtaken |-> \E i \in DOMAIN flight[c].waiting :
                                            flight[c].waiting[i] = Update(TRUE, CancelMsg)]]

NextInFlight ==
    \/ Arrive
    \/ BeginRun
    \/ RunAtOnce
    \/ CompleteRun
\* ------------------------------------------------ the offer cache (cache.rs)
\* The days of a month the program runs through.
NumDays == 2
Days == 1..NumDays

SyncMsg == [kind |-> "Sync"]
OffersMsg == [kind |-> "Offers"]

\* The branches of the public commands come first in the schema, before the
\* maintainers filter and whatever the state of the chat.
command_handler(m) ==
    CASE m.kind = "Sync" -> "sync"
      [] m.kind = "Offers" -> "offers"
      [] OTHER -> "none"

Offer(id, regular_price_unit) == [id |-> id, regular_price_unit |-> regular_price_unit]
OfferLists == {<<>>, <<Offer(1, "szt")>>, <<Offer(2, "")>>}
OfferResponses == {TransportFailure} \cup {Received(l) : l \in OfferLists}

\* get_offers: the offers of the response that have a price unit
get_offers(resp) ==
    IF ~resp.received THEN Err([kind |-> "Transport", value |-> ""])
    ELSE Ok(SelectSeq(resp.data, LAMBDA o : o.regular_price_unit # ""))

CallOffers(title, res) == [op |-> "get_offers", title |-> title, res |-> res]

\* fetch_accounts: the titles of the tree in key order
fetch_accounts(accounts_) ==
    SelectSeq([i \in 1..NumTitles |-> <<"title", i>>],
              LAMBDA t : accounts_[t] # NoAccount)

\* sync_offers on day `day`, the backend answering resp[t] for the account
\* stored under t.  An account whose get_offers fails is left without an
\* entry; collect_day is compared and never assigned.
sync_offers(cashe_, accounts_, day, resp) ==
    IF day = cashe_.collect_day
        THEN [cashe |-> cashe_, calls |-> <<>>, res |-> Ok(Unit)]
    ELSE LET names == fetch_accounts(accounts_)
             got(t) == get_offers(resp[t])
         IN [cashe |-> [cashe_ EXCEPT !.offers =
                            [t \in Titles |->
                                IF accounts_[t] # NoAccount /\ got(t).ok
                                    THEN got(t).val ELSE NoOffers]],
             calls |-> [i \in 1..Len(names) |-> CallOffers(names[i], got(names[i]))],
             res |-> Ok(Unit)]

\* The tree is kept on disk: the program starts with the accounts of its
\* earlier runs.
InitSync ==
    /\ dialogues = [c \in Chats |-> NoDialogue]
    /\ accounts \in [Titles -> Users \cup {NoAccount}]
    /\ panicked = {}
    /\ last = NoEvent
    /\ calc = NoCalc
    /\ InitRest

\* The sync endpoint runs: sync_offers and the message of its result.  The
\* run is recorded with the day, the days collected on and the offers held
\* when it began.
SyncCommand ==
    \E c \in Chats, is_admin \in BOOLEAN :
    \E resp \in [Titles -> OfferResponses] :
        /\ c \notin panicked
        /\ command_handler(SyncMsg) = "sync"
        /\ \A t \in Titles : accounts[t] = NoAccount => resp[t] \in NotCalled(OfferResponses)
        /\ LET r == sync_offers(cashe, accounts, today, resp)
           IN /\ cashe' = r.cashe
              /\ collected' = IF today = cashe.collect_day THEN collected
                              ELSE collected \cup {today}
              /\ last' = [chat |-> c, is_admin |-> is_admin, msg |-> SyncMsg,
                          handler |-> "sync", state |-> StateOf(dialogues[c]),
                          accounts |-> accounts,
                          sent |-> IF r.res.ok THEN <<Say("Synching finished.")>>
                                   ELSE <<SayError("Synching failed", r.res.err)>>,
                          calls |-> r.calls, result |-> "Ok",
                          day |-> today, collected |-> collected,
                          offers |-> cashe.offers]
        /\ UNCHANGED <<dialogues, accounts, panicked, calc, flight, today, lockVars>>

\* The offers endpoint runs: the offers of the cache are sent to the chat.
OffersCommand ==
    \E c \in Chats, is_admin \in BOOLEAN :
        /\ c \notin panicked
        /\ command_handler(OffersMsg) = "offers"
        /\ last' = [chat |-> c, is_admin |-> is_admin, msg |-> OffersMsg,
                    handler |-> "offers", state |-> StateOf(dialogues[c]),
                    accounts |-> accounts,
                    sent |-> <<[text |-> "Current offers:", error |-> NoError,
                                offers |-> cashe.offers]>>,
                    calls |-> <<>>, result |-> "Ok"]
        /\ UNCHANGED <<dialogues, accounts, panicked, calc, flight, syncVars, lockVars>>

\* Utc::now().day() moves on.
DayPasses ==
    /\ today < NumDays
    /\ today' = today + 1
    /\ UNCHANGED <<dialogues, accounts, panicked, last, calc, flight, cashe,
                   collected, lockVars>>

RemoveBetweenSyncs == RemoveIn(Chats, {RemoveMsg(t) : t \in Titles})

NextSync ==
    \/ SyncCommand
    \/ OffersCommand
    \/ DayPasses
    \/ RemoveBetweenSyncs

SpecSync == InitSync /\ [][NextSync]_vars


\* ------------------------------------- the store and cache mutexes (main.rs)
\* The endpoints that lock, and the mutexes each locks, in the order of its
\* lock().await calls.  The guards live to the end of the statement or of
\* the function and are dropped together, on return and on unwinding alike.
LockingHandlers ==
    {"sync", "offers", "list", "rename", "remove", "endpoint_button",
     "receive_sms_code", "recive_title"}

\* locks with an offers endpoint that locks the store after the cache
locks_offers_then_store(handler) ==
    CASE handler = "sync" -> <<"store", "cashe">>
      [] handler = "offers" -> <<"cashe", "store">>
      [] OTHER -> <<"store">>

locks(handler) ==
    CASE handler = "sync" -> <<"store", "cashe">>
      [] handler = "offers" -> <<"cashe">>
      [] OTHER -> <<"store">>

\* The endpoints that await the backend before their first lock().await.
CallsBeforeLocking(handler) == handler \in {"receive_sms_code", "recive_title"}

\* lock().await: the task joins the waiters of the mutex, which are served
\* first come, first served; the first of them owns the mutex.
Request(q, w, m) == [q EXCEPT ![m] = Append(@, w)]
Waits(w, m) ==
    /\ pc[w].at = "locking"
    /\ locks(pc[w].handler)[pc[w].held + 1] = m
Holds(w, m) ==
    /\ \E i \in 1..pc[w].held : locks(pc[w].handler)[i] = m
    /\ mutexes[m] # <<>> /\ Head(mutexes[m]) = w

\* An update of worker w's chat reaches a locking endpoint.
Begin(w) ==
    /\ pc[w] = AtRest
    /\ \E h \in LockingHandlers :
        IF CallsBeforeLocking(h)
            THEN /\ pc' = [pc EXCEPT ![w] = [handler |-> h, at |-> "calling", held |-> 0]]
                 /\ UNCHANGED mutexes
            ELSE /\ pc' = [pc EXCEPT ![w] = [handler |-> h, at |-> "locking", held |-> 0]]
                 /\ mutexes' = Request(mutexes, w, locks(h)[1])
    /\ UNCHANGED <<dialogues, accounts, panicked, last, calc, flight, syncVars>>

\* The backend calls made before the lock return, and the endpoint either
\* goes on to lock the store or ends without locking.
BackendReturns(w) ==
    /\ pc[w].at = "calling"
    /\ \/ /\ pc' = [pc EXCEPT ![w].at = "locking"]
          /\ mutexes' = Request(mutexes, w, locks(pc[w].handler)[1])
       \/ /\ pc' = [pc EXCEPT ![w] = AtRest]
          /\ UNCHANGED mutexes
    /\ UNCHANGED <<dialogues, accounts, panicked, last, calc, flight, syncVars>>

\* The mutex the task waits for is handed to it; it goes on to its next
\* lock().await, or to its work under the guards.
Acquire(w) ==
    /\ pc[w].at = "locking"
    /\ LET order == locks(pc[w].handler)
           m == order[pc[w].held + 1]
       IN /\ Head(mutexes[m]) = w
          /\ IF pc[w].held + 1 = Len(order)
                THEN /\ pc' = [pc EXCEPT ![w].held = @ + 1, ![w].at = "holding"]
                     /\ UNCHANGED mutexes
                ELSE /\ pc' = [pc EXCEPT ![w].held = @ + 1]
                     /\ mutexes' = Request(mutexes, w, order[pc[w].held + 2])
    /\ UNCHANGED <<dialogues, accounts, panicked, last, calc, flight, syncVars>>

\* The work under the guards (tree calls, the backend calls of sync_offers,
\* the message to the chat) returns and the guards are dropped.
Finish(w) ==
    /\ pc[w].at = "holding"
    /\ mutexes' = [m \in DOMAIN mutexes |->
                      IF mutexes[m] # <<>> /\ Head(mutexes[m]) = w
                          THEN Tail(mutexes[m]) ELSE mutexes[m]]
    /\ pc' = [pc EXCEPT ![w] = AtRest]
    /\ UNCHANGED <<dialogues, accounts, panicked, last, calc, flight, syncVars>>

NextLocks ==
    \E w \in Workers :
        \/ Begin(w)
        \/ BackendReturns(w)
        \/ Acquire(w)
        \/ Finish(w)

\* Every backend call and every message to the chat returns, and a task
\* that can run is run by the runtime.  Updates need not arrive.
FairLocks ==
    \A w \in Workers :
        /\ WF_vars(BackendReturns(w))
        /\ WF_vars(Acquire(w))
        /\ WF_vars(Finish(w))

SpecLocks == Init /\ [][NextLocks]_vars /\ FairLocks


SpecInFlight == Init /\ [][NextInFlight]_vars

TypeOK ==
    /\ \A c \in Chats : dialogues[c] \in
         {NoDialogue}
           \cup {ReceiveSmsCode(t, p) : t \in Titles, p \in Phones}
           \cup {ReceiveTitle(t, p, x) : t \in Titles, p \in Phones, x \in Texts}
    /\ \A t \in Titles : accounts[t] \in Users \cup {NoAccount}
    /\ panicked \subseteq Chats
    /\ last.result \in {"Ok", "Err", "Panic"}

\* --------------------------------------------- the BiedApi functions on their own
\* Each behaviour picks one function and one response for it, and the call
\* returns.  The responses range wider than those of the onboarding runs.
AllSmsResponses ==
    {TransportFailure}
        \cup {Received(SmsVerificationResponce(n, b, s, msg)) :
                n \in BlockedMinutes, b \in BOOLEAN, s \in BOOLEAN, msg \in ErrorMessages}

SetCookieHeaders == UNION {[1..n -> LoginHeaders] : n \in 0..MaxHeaders}
AllLoginResponses ==
    {NoHttp} \cup {Http(hs, b) : hs \in SetCookieHeaders,
                                 b \in {LoginBody(<<"card", 1>>), InvalidBody}}

Alphabet == {"c", "r", "f", "=", ";", "x"}
ExampleWithToken ==
    <<"f", "o", "o", "=", "b", "a", "r", ";", " ", "c", "r", "f", "=", "X", "Y", "Z",
      "1", "2", "3", ";", " ", "b", "a", "z", "=", "q", "u", "x">>
ExampleWithoutToken ==
    <<"n", "o", " ", "t", "o", "k", "e", "n", " ", "h", "e", "r", "e">>
CookieTexts ==
    UNION {[1..n -> Alphabet] : n \in 0..MaxLen}
        \cup {ExampleWithToken, ExampleWithoutToken}

Pending(fn, arg) == [fn |-> fn, arg |-> arg, done |-> FALSE, out |-> <<>>]
Returns(fn, out) ==
    /\ calc.fn = fn
    /\ ~calc.done
    /\ calc' = [calc EXCEPT !.done = TRUE, !.out = out]
    /\ UNCHANGED <<dialogues, accounts, panicked, last, flight, syncVars, lockVars>>

InitFunctions ==
    /\ dialogues = [c \in Chats |-> NoDialogue]
    /\ accounts = [t \in Titles |-> NoAccount]
    /\ panicked = {}
    /\ last = NoEvent
    /\ InitRest
    /\ \/ \E r \in AllSmsResponses : calc = Pending("send_sms_code", r)
       \/ \E r \in NextStepResponses : calc = Pending("calculate_next_step", r)
       \/ \E r \in AllLoginResponses : calc = Pending("login", r)
       \/ \E t \in CookieTexts : calc = Pending("extract_csrf_token", t)

SendSmsCode == Returns("send_sms_code", send_sms_code(calc.arg))
CalculateNextStep == Returns("calculate_next_step", calculate_next_step(calc.arg))
Login == Returns("login", login(<<"phone", 1>>, <<"text", 1>>, calc.arg))
ExtractCsrfToken == Returns("extract_csrf_token", extract_csrf_token(calc.arg))

NextFunctions ==
    \/ SendSmsCode
    \/ CalculateNextStep
    \/ Login
    \/ ExtractCsrfToken

SpecFunctions == InitFunctions /\ [][NextFunctions]_vars

HasReturned(fn) == calc.fn = fn /\ calc.done

\* ------------------------------------------------------------------ claims
\* The conversation of chat c is Idle: State::Start, which the storage
\* holds as "no entry".
Idle(c) == StateOf(dialogues[c]) = Start

\* The last run sent the operator a message carrying error e.
Reported(e) == \E i \in DOMAIN last.sent : last.sent[i].error = e

SmsFailureKinds == {"BlockedMinutes", "Blocked", "SmsNotSent", "Transport"}

CallsTo(op) == {i \in DOMAIN last.calls : last.calls[i].op = op}

\* The last run was receive_sms_code on a text message for which
\* calculate_next_step returned `step`.
SmsCodeStep(step) ==
    /\ last.handler = "receive_sms_code"
    /\ last.state.tag = "ReceiveSmsCode"
    /\ MsgText(last.msg) # None
    /\ Len(last.calls) >= 1
    /\ last.calls[1].op = "calculate_next_step"
    /\ last.calls[1].res = Ok(step)

\* ... and it went on to call login, which returned a user / an error.
SmsCodeLoginOk ==
    /\ SmsCodeStep("AccountExist")
    /\ Len(last.calls) >= 2 /\ last.calls[2].op = "login" /\ last.calls[2].res.ok
SmsCodeLoginFailed ==
    /\ SmsCodeStep("AccountExist")
    /\ Len(last.calls) >= 2 /\ last.calls[2].op = "login" /\ ~last.calls[2].res.ok

\* C3: when receive_sms_code runs on a text message, calculate_next_step
\* returns AccountExist and login succeeds, the user returned by login is in
\* the tree under the title of the flow and the conversation is Idle.
C3_LoginSuccessStoresAndIdles ==
    SmsCodeLoginOk =>
        /\ accounts[last.state.title] = last.calls[2].res.val
        /\ Idle(last.chat)

\* C4: when receive_sms_code runs on a text message, calculate_next_step
\* returns AccountExist and login fails, the conversation is Idle and the
\* login error was sent to the operator.
C4_LoginFailureIdlesAndReports ==
    SmsCodeLoginFailed =>
        /\ Idle(last.chat)
        /\ Reported(last.calls[2].res.err)

\* C5: whenever recive_title runs on a text message, the conversation is
\* Idle afterwards, whatever register, login and the tree insert returned.
C5_ReceiveTitleAlwaysIdles ==
    (last.handler = "recive_title" /\ MsgText(last.msg) # None) => Idle(last.chat)

\* C6: no endpoint run is ended by a panic.
C6_NoHandlerPanics == last.result # "Panic"

\* C7: every backend or store call of an endpoint run that failed has its
\* error sent to the operator in that same run.
C7_EveryFailureReported ==
    \A i \in DOMAIN last.calls :
        ~last.calls[i].res.ok => Reported(last.calls[i].res.err)

C9_NonTextOnlyReprompts ==
    (last.msg.kind = "NonText" /\ last.state.tag \in {"ReceiveSmsCode", "ReceiveTitle"}) =>
        /\ last.handler \in {"receive_sms_code", "recive_title"}
        /\ dialogues[last.chat] = last.state
        /\ last.calls = <<>>
        /\ accounts = last.accounts
        /\ Len(last.sent) = 1
        /\ last.result = "Ok"

C9_Witness ==
    /\ last.msg.kind = "NonText"
    /\ last.handler = "recive_title"
    /\ dialogues[last.chat].tag = "ReceiveTitle"

\* C10: a Cancel command handled while the conversation is Idle returns no
\* error and leaves the conversation Idle.
C10_CancelInIdleIsNoOp ==
    (last.handler = "cancel" /\ last.state = Start) =>
        /\ last.result = "Ok"
        /\ Idle(last.chat)

\* ------------------------------------------------------------------------------
\* C11: for every decoded sms response, send_sms_code returns the error of
\* a block of blocked_in_minutes minutes when blocked_in_minutes > 0, the
\* error of an indefinite block when is_blocked is set without a positive
\* duration, the not-sent error carrying error_message when neither block
\* applies and is_sms_sent is false, and Ok exactly when the sms was sent
\* and no block flag or positive duration is set.
C11_SmsCodeOutcome ==
    (HasReturned("send_sms_code") /\ calc.arg.received) =>
        LET d == calc.arg.data
            r == calc.out
        IN /\ d.blocked_in_minutes > 0 =>
                r = Err([kind |-> "BlockedMinutes", minutes |-> d.blocked_in_minutes,
                         reason |-> ""])
           /\ (d.blocked_in_minutes <= 0 /\ d.is_blocked) =>
                r = Err([kind |-> "Blocked", minutes |-> 0, reason |-> ""])
           /\ (d.blocked_in_minutes <= 0 /\ ~d.is_blocked /\ ~d.is_sms_sent) =>
                r = Err([kind |-> "SmsNotSent", minutes |-> 0, reason |-> d.error_message])
           /\ r.ok <=> (d.is_sms_sent /\ ~d.is_blocked /\ d.blocked_in_minutes <= 0)

C11_Witness ==
    /\ HasReturned("send_sms_code")
    /\ calc.arg.received
    /\ calc.arg.data.blocked_in_minutes > 0
    /\ calc.arg.data.is_blocked
    /\ ~calc.out.ok
    /\ calc.out.err.kind = "BlockedMinutes"

\* C12 as stated: one string yields NewAccount, one string yields
\* AccountExist, and every other string yields the unknown-step error.
C12_OneStringPerStep ==
    (HasReturned("calculate_next_step") /\ calc.arg.received) =>
        /\ calc.arg.data = "NewAccount" => calc.out = Ok("NewAccount")
        /\ calc.arg.data = "AccountExist" => calc.out = Ok("AccountExist")
        /\ calc.arg.data \notin {"NewAccount", "AccountExist"} =>
                calc.out = Err([kind |-> "UnknownNextStep", value |-> calc.arg.data])

\* C12: for every decoded next-step response, calculate_next_step returns
\* NewAccount for "NewAccount", AccountExist for either of "AccountExist"
\* and "Login", and for every other string the unknown-step error carrying
\* that string; the result is one of these.
C12_NextStepOutcome ==
    (HasReturned("calculate_next_step") /\ calc.arg.received) =>
        /\ calc.arg.data = "NewAccount" => calc.out = Ok("NewAccount")
        /\ calc.arg.data \in {"AccountExist", "Login"} => calc.out = Ok("AccountExist")
        /\ calc.arg.data \notin {"NewAccount", "AccountExist", "Login"} =>
                calc.out = Err([kind |-> "UnknownNextStep", value |-> calc.arg.data])

C12_Witness ==
    /\ HasReturned("calculate_next_step")
    /\ calc.arg.received
    /\ calc.arg.data = "Login"
    /\ calc.out = Ok("AccountExist")

\* The set-cookie headers of the login response in hand, and the cookie
\* header a successful login took each session value from.
LoginReturned == HasReturned("login") /\ calc.arg.received
Readable(hs) == \A i \in DOMAIN hs : hs[i].ascii
SecondCookie(hs) ==
    hs[CHOOSE i \in DOMAIN hs :
            /\ starts_with(hs[i], "nr2Users")
            /\ \A j \in DOMAIN hs : starts_with(hs[j], "nr2Users") => j <= i]

\* C13 as stated: each session value is that of the first set-cookie header
\* of its cookie name.
C13_FirstOccurrenceUsed ==
    (LoginReturned /\ calc.out.ok) =>
        LET hs == calc.arg.headers
        IN /\ \E i \in DOMAIN hs :
                /\ hs[i].name = "nr1Users"
                /\ \A j \in DOMAIN hs : hs[j].name = "nr1Users" => i <= j
                /\ calc.out.val.auth.users1 = hs[i].value
           /\ \E i \in DOMAIN hs :
                /\ hs[i].name = "nr2Users"
                /\ \A j \in DOMAIN hs : hs[j].name = "nr2Users" => i <= j
                /\ calc.out.val.auth.users2 = hs[i].value

\* C13: login scans all set-cookie headers and takes each session value from
\* the last header whose text starts with the cookie name (nr1Users,
\* nr2Users), also when several headers start with it.
C13_LastOccurrenceUsed ==
    (LoginReturned /\ calc.out.ok) =>
        LET hs == calc.arg.headers
        IN /\ \E i \in DOMAIN hs :
                /\ starts_with(hs[i], "nr1Users")
                /\ \A j \in DOMAIN hs : starts_with(hs[j], "nr1Users") => j <= i
                /\ calc.out.val.auth.users1 = hs[i].value
           /\ \E i \in DOMAIN hs :
                /\ starts_with(hs[i], "nr2Users")
                /\ \A j \in DOMAIN hs : starts_with(hs[j], "nr2Users") => j <= i
                /\ calc.out.val.auth.users2 = hs[i].value

C13_Witness ==
    /\ LoginReturned
    /\ calc.arg.headers = <<SetCookie("nr1Users", CookieA), SetCookie("nr1Users", CookieB),
                            SetCookie("nr2Users", CookieTok)>>
    /\ calc.out.ok
    /\ calc.out.val.auth.users1 = CookieB

\* C14: a login response without a nr2Users cookie fails, whatever its body,
\* with an error that names the absent cookie: at the least its message is
\* not empty, and it is not the transport error.
C14_MissingCookieNamed ==
    (LoginReturned /\ \A i \in DOMAIN calc.arg.headers :
                            ~starts_with(calc.arg.headers[i], "nr2Users")) =>
        /\ ~calc.out.ok
        /\ calc.out.err.message \notin {"", "reqwest::Error"}

\* C15 as stated: whenever the percent-decoded second cookie of a response
\* that has both cookies holds no crf fragment, login fails with the
\* csrf-not-found error.
C15_NoCrfAlwaysCsrfNotFound ==
    (/\ LoginReturned
     /\ Readable(calc.arg.headers)
     /\ \E i \in DOMAIN calc.arg.headers : starts_with(calc.arg.headers[i], "nr1Users")
     /\ \E i \in DOMAIN calc.arg.headers : starts_with(calc.arg.headers[i], "nr2Users")
     /\ \A i \in DOMAIN calc.arg.headers : calc.arg.headers[i].pair
     /\ ~extract_csrf_token(percent_decode(SecondCookie(calc.arg.headers).value)).some) =>
        calc.out = Err(ApiError("can't find the csrf token"))

\* C15: a successful login returns the two cookie values as the headers had
\* them (percent-encoded octets kept) and as csrf_token the token extracted
\* from the percent-decoded second value, so that %3Bcrf%3Dtok%3B gives tok;
\* when the decoded second value holds no crf fragment login returns no
\* credentials, and it fails with the csrf-not-found error if the body also
\* decodes.
C15_CredentialsOfLogin ==
    LoginReturned =>
        LET hs == calc.arg.headers
            found == /\ Readable(hs)
                     /\ \E i \in DOMAIN hs : starts_with(hs[i], "nr1Users")
                     /\ \E i \in DOMAIN hs : starts_with(hs[i], "nr2Users")
                     /\ \A i \in DOMAIN hs : hs[i].pair
        IN /\ calc.out.ok =>
                /\ \E i \in DOMAIN hs : calc.out.val.auth.users1 = hs[i].value
                /\ calc.out.val.auth.users2 = SecondCookie(hs).value
                /\ Some(calc.out.val.auth.csrf_token) =
                        extract_csrf_token(percent_decode(calc.out.val.auth.users2))
           /\ (found /\ calc.arg.body.valid /\ SecondCookie(hs).value = CookieTok) =>
                /\ calc.out.ok
                /\ calc.out.val.auth.users2 = CookieTok
                /\ calc.out.val.auth.csrf_token = <<"t", "o", "k">>
           /\ (found /\ ~extract_csrf_token(percent_decode(SecondCookie(hs).value)).some) =>
                /\ ~calc.out.ok
                /\ calc.arg.body.valid =>
                        calc.out = Err(ApiError("can't find the csrf token"))

C15_Witness ==
    /\ LoginReturned
    /\ calc.out.ok
    /\ calc.out.val.auth.users2 = CookieUvw
    /\ calc.out.val.auth.csrf_token = <<"u", "v", "w">>

\* The crf=<value> fragments of text s: <<i, e>> is one when "crf=" stands
\* at i..i+3 and i+4..e is a non-empty run without ";" that ends at a ";" or
\* at the end of s.
Fragments(s) ==
    {f \in (1..Len(s)) \X (1..Len(s)) :
        /\ f[1] + 4 <= f[2]
        /\ SubSeq(s, f[1], f[1] + 3) = <<"c", "r", "f", "=">>
        /\ \A k \in (f[1] + 4)..f[2] : s[k] # ";"
        /\ f[2] = Len(s) \/ s[f[2] + 1] = ";"}

\* C16: for every text, extract_csrf_token returns None when the text has no
\* crf=<value> fragment and otherwise the value of its first fragment: the
\* characters after "crf=" up to the next ";" or the end of the text,
\* wherever in the text the fragment stands.  The two texts of the
\* specification give XYZ123 and None.
C16_ExtractsFragmentValue ==
    HasReturned("extract_csrf_token") =>
        LET s == calc.arg
        IN /\ calc.out.some <=> Fragments(s) # {}
           /\ calc.out.some =>
                \E f \in Fragments(s) :
                    /\ \A g \in Fragments(s) : f[1] <= g[1]
                    /\ calc.out.val = SubSeq(s, f[1] + 4, f[2])
           /\ s = ExampleWithToken => calc.out = Some(<<"X", "Y", "Z", "1", "2", "3">>)
           /\ s = ExampleWithoutToken => calc.out = NoneStr

C16_Witness ==
    /\ HasReturned("extract_csrf_token")
    /\ calc.arg = <<"x", "c", "r", "f", "=", "x">>
    /\ calc.out = Some(<<"x">>)

\* C17: in a recive_title run the tree insert is the third call, made after
\* a register call that succeeded and then a login call that succeeded, all
\* within the run; what is inserted is the user that login returned, under
\* the title of the ReceiveTitle state; a login call is made only after a
\* successful register, and a failed register is the run's only call.
C17_RegisterLoginThenInsert ==
    (last.handler = "recive_title" /\ last.state.tag = "ReceiveTitle") =>
        LET calls == last.calls
        IN /\ \A k \in CallsTo("insert_account") :
                /\ k = 3
                /\ calls[1].op = "register" /\ calls[1].res.ok
                /\ calls[2].op = "login" /\ calls[2].res.ok
                /\ calls[1].phone_number = last.state.phone_number
                /\ calls[2].phone_number = last.state.phone_number
                /\ calls[1].sms_code = last.state.sms_code
                /\ calls[2].sms_code = last.state.sms_code
                /\ calls[1].first_name = MsgText(last.msg)
                /\ calls[3].title = last.state.title
                /\ calls[3].user = calls[2].res.val
           /\ \A k \in CallsTo("login") :
                k = 2 /\ calls[1].op = "register" /\ calls[1].res.ok
           /\ \A k \in CallsTo("register") : ~calls[k].res.ok => Len(calls) = k
           /\ accounts # last.accounts =>
                /\ Len(calls) = 3
                /\ calls[3].op = "insert_account" /\ calls[3].res.ok
                /\ accounts = [last.accounts EXCEPT ![last.state.title] = calls[2].res.val]

C17_Witness ==
    /\ last.handler = "recive_title"
    /\ Len(last.calls) = 3
    /\ last.calls[3].op = "insert_account"
    /\ last.calls[3].res.ok
    /\ last.accounts[last.state.title] = NoAccount
    /\ accounts[last.state.title] = last.calls[2].res.val

\* C18: in one endpoint run send_sms_code, calculate_next_step, login and
\* register are each called at most once, no backend call follows a backend
\* call that failed, and backend calls are made only by the endpoint run of
\* an incoming message.
BackendOps == {"send_sms_code", "calculate_next_step", "login", "register"}

C18_EachCallAtMostOnce ==
    /\ \A op \in BackendOps : Cardinality(CallsTo(op)) <= 1
    /\ \A i \in DOMAIN last.calls :
            (last.calls[i].op \in BackendOps /\ ~last.calls[i].res.ok) =>
                \A j \in DOMAIN last.calls : j > i => last.calls[j].op \notin BackendOps
    /\ (\E op \in BackendOps : CallsTo(op) # {}) =>
            /\ last.chat # NoEvent.chat
            /\ last.handler \in {"add_acconut", "receive_sms_code", "recive_title"}
            /\ MsgText(last.msg) # None

C18_Witness ==
    /\ last.handler = "receive_sms_code"
    /\ Len(last.calls) = 1
    /\ last.calls[1].op = "calculate_next_step"
    /\ ~last.calls[1].res.ok

C20_SessionsIndependent ==
    [][\A b \in SessionChats : b # last'.chat => dialogues'[b] = dialogues[b]]_vars

C20_Witness ==
    /\ last.chat = "chatA"
    /\ last.handler = "receive_sms_code"
    /\ last.result = "Panic"
    /\ dialogues["chatA"].tag = "ReceiveSmsCode"
    /\ dialogues["chatB"].tag = "ReceiveTitle"

C22_StateEntries ==
    last.handler # "none" =>
        LET before == last.state
            after == StateOf(dialogues[last.chat])
        IN /\ (after.tag = "ReceiveSmsCode" /\ after # before) =>
                /\ before = Start
                /\ last.handler = "add_acconut"
                /\ last.msg.kind = "Add"
                /\ Len(last.calls) = 1
                /\ last.calls[1].op = "send_sms_code" /\ last.calls[1].res.ok
                /\ after = ReceiveSmsCode(last.msg.title, last.msg.phone_number)
           /\ (after.tag = "ReceiveTitle" /\ after # before) =>
                /\ before.tag = "ReceiveSmsCode"
                /\ last.handler = "receive_sms_code"
                /\ MsgText(last.msg) # None
                /\ Len(last.calls) = 1
                /\ last.calls[1].op = "calculate_next_step"
                /\ last.calls[1].res = Ok("NewAccount")
                /\ after.title = before.title
                /\ after.phone_number = before.phone_number
           /\ after # before => after.tag \in {"Start", "ReceiveSmsCode", "ReceiveTitle"}

C22_Witness ==
    /\ last.handler = "add_acconut"
    /\ last.state = Start
    /\ last.msg.title = <<"title", 2>>
    /\ dialogues[last.chat] = ReceiveSmsCode(<<"title", 2>>, last.msg.phone_number)

\* C23: when receive_sms_code runs on a text message in ReceiveSmsCode and
\* calculate_next_step fails, the error is reported and the chat is back in
\* Start.
C23_NextStepFailureIdles ==
    (/\ last.handler = "receive_sms_code"
     /\ last.state.tag = "ReceiveSmsCode"
     /\ MsgText(last.msg) # None
     /\ Len(last.calls) >= 1
     /\ last.calls[1].op = "calculate_next_step"
     /\ ~last.calls[1].res.ok) =>
        /\ Reported(last.calls[1].res.err)
        /\ Idle(last.chat)

\* C24: a rename_account or remove_account call that returns an error leaves
\* the tree holding the pairs of title and record it held before the call,
\* and a call on a title the tree does not hold returns the "no account"
\* error.
C24_FailedStoreCallChangesNothing ==
    /\ (/\ last.handler \in {"rename", "remove"}
        /\ ~last.calls[1].res.ok) => accounts = last.accounts
    /\ (/\ last.handler = "rename"
        /\ last.accounts[last.msg.old] = NoAccount
        /\ last.calls[1].res.ok = FALSE
        /\ last.calls[1].res.err.kind # "StoreError") =>
            last.calls[1].res.err.kind = "no account with that name"
    /\ (/\ last.handler = "remove"
        /\ last.accounts[last.msg.title] = NoAccount
        /\ last.calls[1].res.ok = FALSE
        /\ last.calls[1].res.err.kind # "StoreError") =>
            last.calls[1].res.err.kind = "No account with that name"

\* C25: a message of a user who is not a maintainer causes no backend call,
\* no change of the chat's dialogue entry and no write to the tree, whatever
\* the state of the chat and whatever the message holds.
C25_StrangersChangeNothing ==
    (last.handler # "none" /\ ~last.is_admin) =>
        /\ \A op \in BackendOps : CallsTo(op) = {}
        /\ StateOf(dialogues[last.chat]) = last.state
        /\ accounts = last.accounts

\* C26: a sync run on a day on which an earlier sync run refreshed the
\* cache makes no get_offers call and leaves the offers of the cache as
\* they were; the backend is asked again only on another day.
C26_OneCollectionPerDay ==
    (last.handler = "sync" /\ last.day \in last.collected) =>
        /\ CallsTo("get_offers") = {}
        /\ cashe.offers = last.offers

\* C27: the endpoints of different chats never deadlock on the store and
\* cache mutexes: whenever an endpoint waits in lock().await for a mutex,
\* it comes to own that mutex, under every interleaving of the locking
\* endpoints, as long as every backend call returns.
C27_EveryLockAcquired ==
    \A w \in Workers : \A m \in {"store", "cashe"} :
        Waits(w, m) ~> Holds(w, m)

C27_Witness ==
    \E w1, w2, w3 \in Workers :
        /\ pc[w1].handler = "sync" /\ pc[w1].at = "holding"
        /\ Holds(w1, "store") /\ Holds(w1, "cashe")
        /\ pc[w2].handler = "sync" /\ Waits(w2, "store")
        /\ pc[w3].handler = "offers" /\ Waits(w3, "cashe")

====
